---- MODULE Spec2Model ----
(***************************************************************************)
(* Verification model of the content-generation pipeline of nue:          *)
(*   - the Generation Client   (src/src/services/gemini.js, callGeminiAPI) *)
(*   - the Response Normalizer (src/src/services/gemini.js, generate...)   *)
(*   - the Session Pipeline    (src/src/pages/Result.jsx)                  *)
(*   - the Proxy               (src/unnamed/part_001, src/unnamed/part_000) *)
(*   - the AuthProvider        (src/src/contexts/AuthContext.jsx)          *)
(* Each part has its own specification over its own variables; the other  *)
(* variables stay unchanged under it.                                     *)
(***************************************************************************)
EXTENDS Integers, Sequences, FiniteSets, TLC

VARIABLES
    \* ---- Generation Client: one call of callGeminiAPI -------------------
    cpc,          \* position of the call: idle, fetch, body, delay, returned, thrown
    caction,      \* the action argument of the call
    retryCount,   \* the retryCount parameter of the running invocation
    now,          \* wall clock, in ms since the call started
    timerAt,      \* deadline of the armed abort timer, or NoTimer
    delayAt,      \* deadline of the 1-second retry delay
    response,     \* the response whose body is being read (position body)
    requests,     \* log of the fetches issued: start, end, outcome
    cresult,      \* what the caller received: a value or an error
    \* ---- Response Normalizer: one call of a generate function -----------
    ntopic,       \* the topic argument
    ntext,        \* the value callGeminiAPI returned (data.text)
    nfn,          \* the function that ran, or "none"
    nresult,      \* what it returned or threw
    \* ---- Session Pipeline: one mounted Result page and the history table -
    user,         \* useAuth().user: the identity, or NoUser for a guest
    query,        \* location.state.query
    quizMode,     \* location.state.quizMode
    mounted,      \* FALSE once the page has navigated away
    cards, currentIndex, loading, generating, showFeedback, error,
    quizQuestions, showQuiz, currentQuizIndex, displayTitle,
    store,        \* rows of the history table
    clock,        \* time of the last write to the table
    loads,        \* the fetchExplanation invocations, in the order started
    quizzes,      \* the fetchQuiz invocations that issued a request
    clar,         \* the handleFeedbackSubmit invocations that issued a request
    storeBudget,  \* number of store operations that may still fail
    \* ---- Proxy: one request to /api/gemini ------------------------------
    pserver,      \* the server that runs the handler: vercel or dev
    pkey,         \* whether GEMINI_API_KEY is set
    pmethod,      \* the HTTP method of the request
    paction,      \* the action field of the request body
    ppc,          \* position: received, model, sent, hung, reset, done
    pforwarded,   \* whether model.generateContent was called
    presponse,    \* the response sent: status, statusText, body
    pclient,      \* what callGeminiAPI hands its caller for that response
    \* ---- AuthProvider: logout and updateProfile --------------------------
    authUser,     \* the user state of AuthContext, or NoUser
    profile,      \* the profile state, or NoProfile
    session,      \* the session state, or NoSession
    cachedProfile, \* localStorage item nue_user_profile, or NoProfile
    serverProfile, \* the profile row of the user on the server
    ipc,          \* the profile load started by loadUser: inflight, done
    lpc,          \* position of logout: idle, racing, done
    elapsed,      \* ms since logout contacted the provider
    upc,          \* position of updateProfile: idle, updating, reloading, done
    uerror,       \* whether the store rejected the update
    uresult       \* what updateProfile returned: success, failure, or none

callVars == <<cpc, caction, retryCount, now, timerAt, delayAt, response, requests, cresult>>

normVars == <<ntopic, ntext, nfn, nresult>>

pageVars == <<cards, currentIndex, loading, generating, showFeedback, error,
              quizQuestions, showQuiz, currentQuizIndex, displayTitle>>

sessVars == <<user, query, quizMode, mounted, pageVars, store, clock, loads,
              quizzes, clar, storeBudget>>

proxyVars == <<pserver, pkey, pmethod, paction, ppc, pforwarded, presponse, pclient>>

authVars == <<authUser, profile, session, cachedProfile, serverProfile, ipc, lpc,
              elapsed, upc, uerror, uresult>>

edgeVars == <<proxyVars, authVars>>

vars == <<callVars, normVars, sessVars, edgeVars>>

(***************************************************************************)
(* JavaScript values.  Every value is a record [t, v]: t is the type tag, *)
(* v the payload.  A raw model text is a sequence of tokens (tag "text"). *)
(***************************************************************************)
Undefined == [t |-> "undefined", v |-> <<>>]
JNull == [t |-> "null", v |-> <<>>]
JStr(s) == [t |-> "str", v |-> s]
JNum(n) == [t |-> "num", v |-> n]
JArr(s) == [t |-> "arr", v |-> s]
JObj(s) == [t |-> "obj", v |-> s]
JText(toks) == [t |-> "text", v |-> toks]

\* A message is the sequence of the non-empty pieces it is concatenated from.
Msg(s) == IF s = "" THEN <<>> ELSE <<s>>

\* An Error object: its name and its message.
Err(name, message) == [name |-> name, message |-> message]
NoError == Err("", <<>>)

NoValue == [kind |-> "none", val |-> Undefined, err |-> NoError]
Returned(v) == [kind |-> "value", val |-> v, err |-> NoError]
Thrown(e) == [kind |-> "error", val |-> Undefined, err |-> e]

(***************************************************************************)
(* Generation Client: callGeminiAPI(action, payload, retryCount = 0)      *)
(***************************************************************************)
MAX_RETRIES == 1
TIMEOUT_MS == 30000
RETRY_DELAY_MS == 1000

NoTimer == 0 - 1

TimeoutMessage == Msg("Request timeout. The AI service is taking too long to respond. Please try again.")
NetworkMessage == Msg("Network error. Please check your internet connection.")

Actions == {"explanation", "clarification", "quiz"}

\* Times (ms after the fetch started) at which the proxy may answer.
Latencies == {200, 29999, 30000}

\* Status lines the proxy may answer with.
Statuses == {[ok |-> TRUE, status |-> 200, statusText |-> "OK"],
             [ok |-> FALSE, status |-> 500, statusText |-> "Internal Server Error"],
             [ok |-> FALSE, status |-> 405, statusText |-> "Method Not Allowed"],
             [ok |-> FALSE, status |-> 502, statusText |-> ""]}

\* Bodies of a response: JSON with a text field, JSON without one, not JSON.
BodyTexts == {JText(<<"hello">>), JText(<<>>), JText(<<"[", "]">>), Undefined}
Bodies == [json : {TRUE}, text : BodyTexts]
            \cup {[json |-> FALSE, text |-> Undefined]}

\* Rejections of fetch other than the abort.
FetchErrors == {Err("TypeError", Msg("Failed to fetch")),
                Err("TypeError", Msg("NetworkError when attempting to fetch resource."))}

\* error.message.includes('Failed to fetch'), line 44.
IncludesFailedToFetch(message) ==
    \E i \in 1..Len(message) : message[i] = "Failed to fetch"

\* The retry test of line 34; the off-by-one variant retries once more.
ShouldRetry_OffByOne(rc) == rc <= MAX_RETRIES
ShouldRetry(rc) == rc < MAX_RETRIES

NoResponse == [ok |-> FALSE, status |-> 0, statusText |-> "", body |-> [json |-> FALSE, text |-> Undefined]]

\* lines 8-18: arm the abort timer and issue the fetch.
IssueFetch(rc) ==
    /\ retryCount' = rc
    /\ timerAt' = now + TIMEOUT_MS
    /\ requests' = Append(requests, [start |-> now, end |-> NoTimer, outcome |-> "pending"])
    /\ cpc' = "fetch"

EndRequest(outcome, at) ==
    [requests EXCEPT ![Len(requests)] = [@ EXCEPT !.end = at, !.outcome = outcome]]

\* The catch block, lines 28-50, for an error that is not the abort; the
\* variant throws one message for every such error.
CatchOther_OneMessage(e) == Thrown(Err("Error", Msg("Request failed")))

CatchOther(e) ==
    IF IncludesFailedToFetch(e.message)
    THEN Thrown(Err("Error", NetworkMessage))
    ELSE Thrown(e)

\* A caller starts callGeminiAPI(action, payload).
Call ==
    /\ cpc = "idle"
    /\ \E a \in Actions : caction' = a
    /\ IssueFetch(0)
    /\ UNCHANGED <<now, delayAt, response, cresult, normVars, sessVars, edgeVars>>

\* fetch resolves with the response's status line before the timer fires;
\* line 20 clears the timer, lines 22-24 throw on a non-2xx status.
FetchResolves ==
    /\ cpc = "fetch"
    /\ \E lat \in Latencies, st \in Statuses, b \in Bodies :
        LET at == requests[Len(requests)].start + lat IN
        /\ at <= timerAt
        /\ now' = at
        /\ timerAt' = NoTimer
        /\ IF st.ok
           THEN /\ cpc' = "body"
                /\ response' = [ok |-> st.ok, status |-> st.status,
                                statusText |-> st.statusText, body |-> b]
                /\ requests' = EndRequest("ok", at)
                /\ cresult' = cresult
           ELSE /\ cpc' = "thrown"
                /\ response' = NoResponse
                /\ requests' = EndRequest("status", at)
                /\ cresult' = CatchOther(Err("Error", Msg("API Error: ") \o Msg(st.statusText)))
    /\ UNCHANGED <<caction, retryCount, delayAt, normVars, sessVars, edgeVars>>

\* fetch rejects for a reason other than the abort (lines 43-49).
FetchRejects ==
    /\ cpc = "fetch"
    /\ \E lat \in Latencies, e \in FetchErrors :
        LET at == requests[Len(requests)].start + lat IN
        /\ at <= timerAt
        /\ now' = at
        /\ requests' = EndRequest("rejected", at)
        /\ cresult' = CatchOther(e)
    /\ cpc' = "thrown"
    /\ UNCHANGED <<caction, retryCount, timerAt, delayAt, response, normVars, sessVars, edgeVars>>

\* The timer fires: controller.abort() rejects the fetch with AbortError
\* (lines 9, 30-41).
TimeoutAbort ==
    /\ cpc = "fetch"
    /\ timerAt # NoTimer
    /\ now' = timerAt
    /\ timerAt' = NoTimer
    /\ requests' = EndRequest("timeout", timerAt)
    /\ IF ShouldRetry(retryCount)
       THEN /\ cpc' = "delay"
            /\ delayAt' = timerAt + RETRY_DELAY_MS
            /\ cresult' = cresult
       ELSE /\ cpc' = "thrown"
            /\ delayAt' = delayAt
            /\ cresult' = Thrown(Err("Error", TimeoutMessage))
    /\ UNCHANGED <<caction, retryCount, response, normVars, sessVars, edgeVars>>

\* The retry delay has elapsed: line 37 calls callGeminiAPI again.
DelayElapsed ==
    /\ cpc = "delay"
    /\ now' = delayAt
    /\ timerAt' = delayAt + TIMEOUT_MS
    /\ retryCount' = retryCount + 1
    /\ requests' = Append(requests, [start |-> delayAt, end |-> NoTimer, outcome |-> "pending"])
    /\ cpc' = "fetch"
    /\ UNCHANGED <<caction, delayAt, response, cresult, normVars, sessVars, edgeVars>>

\* lines 26-27: response.json() and the read of data.text.
BodyRead ==
    /\ cpc = "body"
    /\ IF response.body.json
       THEN /\ cpc' = "returned"
            /\ cresult' = Returned(response.body.text)
       ELSE /\ cpc' = "thrown"
            /\ cresult' = CatchOther(Err("SyntaxError", Msg("Unexpected token in JSON")))
    /\ UNCHANGED <<caction, retryCount, now, timerAt, delayAt, response, requests, normVars, sessVars, edgeVars>>

CallInit ==
    /\ cpc = "idle"
    /\ caction = "explanation"
    /\ retryCount = 0
    /\ now = 0
    /\ timerAt = NoTimer
    /\ delayAt = 0
    /\ response = NoResponse
    /\ requests = <<>>
    /\ cresult = NoValue

CallNext ==
    \/ Call
    \/ FetchResolves
    \/ FetchRejects
    \/ TimeoutAbort
    \/ DelayElapsed
    \/ BodyRead

(***************************************************************************)
(* Raw model text.  A text is a sequence of tokens: the six structural    *)
(* JSON characters, JSON literals, prose words and code-fence markers.    *)
(* White space is not modelled.                                           *)
(***************************************************************************)
StringTokens == {"cleanTopic", "cards", "title", "content", "A", "B", "C", "D",
                 "t1", "t2",
                 "Clean", "question", "options", "correctAnswer", "q1",
                 "True", "False", "Maybe", "feedback"}
NumberTokens == {"0", "7"}
\* The code-fence markers: three backticks followed by json, three backticks.
FenceJson == "<fence-json>"
Fence == "<fence>"
ProseTokens == {"Sure!", "Done."}

ParseFail == [ok |-> FALSE, val |-> Undefined, next |-> 0]
ParseOk(v, n) == [ok |-> TRUE, val |-> v, next |-> n]

\* obj[key] = v on the member list of an object: a repeated key keeps its
\* place and takes the last value.
PutMember(members, key, v) ==
    IF \E i \in 1..Len(members) : members[i].k = key
    THEN [i \in 1..Len(members) |->
            IF members[i].k = key THEN [k |-> key, v |-> v] ELSE members[i]]
    ELSE Append(members, [k |-> key, v |-> v])

RECURSIVE ParseValue(_, _), ParseElements(_, _, _), ParseMembers(_, _, _)

\* JSON value starting at token i.
ParseValue(toks, i) ==
    IF i > Len(toks) THEN ParseFail
    ELSE LET tk == toks[i] IN
         CASE tk = "[" ->
                IF i + 1 <= Len(toks) /\ toks[i + 1] = "]"
                THEN ParseOk(JArr(<<>>), i + 2)
                ELSE ParseElements(toks, i + 1, <<>>)
           [] tk = "{" ->
                IF i + 1 <= Len(toks) /\ toks[i + 1] = "}"
                THEN ParseOk(JObj(<<>>), i + 2)
                ELSE ParseMembers(toks, i + 1, <<>>)
           [] tk \in StringTokens -> ParseOk(JStr(tk), i + 1)
           [] tk \in NumberTokens -> ParseOk(JNum(tk), i + 1)
           [] tk = "null" -> ParseOk(JNull, i + 1)
           [] OTHER -> ParseFail

\* Elements of an array, the first one at token i; acc holds those read.
ParseElements(toks, i, acc) ==
    LET r == ParseValue(toks, i) IN
    IF ~r.ok \/ r.next > Len(toks) THEN ParseFail
    ELSE IF toks[r.next] = "," THEN ParseElements(toks, r.next + 1, Append(acc, r.val))
    ELSE IF toks[r.next] = "]" THEN ParseOk(JArr(Append(acc, r.val)), r.next + 1)
    ELSE ParseFail

\* Members of an object, the first key at token i; acc holds those read.
ParseMembers(toks, i, acc) ==
    IF i + 1 > Len(toks) \/ toks[i] \notin StringTokens \/ toks[i + 1] # ":"
    THEN ParseFail
    ELSE LET r == ParseValue(toks, i + 2) IN
         IF ~r.ok \/ r.next > Len(toks) THEN ParseFail
         ELSE IF toks[r.next] = ","
              THEN ParseMembers(toks, r.next + 1, PutMember(acc, toks[i], r.val))
         ELSE IF toks[r.next] = "}"
              THEN ParseOk(JObj(PutMember(acc, toks[i], r.val)), r.next + 1)
         ELSE ParseFail

\* JSON.parse(jsonString): the whole string is one JSON value, or it throws.
JSONparse(toks) ==
    LET r == ParseValue(toks, 1) IN
    IF r.ok /\ r.next = Len(toks) + 1 THEN [ok |-> TRUE, val |-> r.val]
    ELSE [ok |-> FALSE, val |-> Undefined]

SubSeqFrom(toks, i, j) == [n \in 1..(j - i + 1) |-> toks[n + i - 1]]

\* text.match(/\{.*\}/s) and text.match(/\[.*\]/s): greedy and dot-all, so
\* from the first opening token to the last closing token after it.
\* The result is jsonMatch ? jsonMatch[0] : text.
MatchOrText(toks, open, close) ==
    LET opens == {i \in 1..Len(toks) : toks[i] = open}
        first == CHOOSE i \in opens : \A k \in opens : i <= k
        closes == {j \in 1..Len(toks) : toks[j] = close /\ j > first}
        last == CHOOSE j \in closes : \A k \in closes : k <= j
    IN  IF opens = {} \/ closes = {} THEN toks
        ELSE SubSeqFrom(toks, first, last)

\* The two text.replace calls of lines 80 and 103: every fence marker is
\* removed; the variant makes the first call only.
StripFences_JsonOnly(toks) == SelectSeq(toks, LAMBDA tk : tk # FenceJson)

RECURSIVE StripFences(_)
StripFences(toks) ==
    IF toks = <<>> THEN <<>>
    ELSE IF Head(toks) \in {FenceJson, Fence} THEN StripFences(Tail(toks))
    ELSE <<Head(toks)>> \o StripFences(Tail(toks))

(***************************************************************************)
(* JavaScript operators on values                                         *)
(***************************************************************************)
IsArray(x) == x.t = "arr"

\* x.key, for x that is not null or undefined.
Get(x, key) ==
    IF x.t = "obj" /\ \E i \in 1..Len(x.v) : x.v[i].k = key
    THEN x.v[CHOOSE i \in 1..Len(x.v) : x.v[i].k = key].v
    ELSE Undefined

\* ToBoolean.
Truthy(x) ==
    CASE x.t \in {"undefined", "null"} -> FALSE
      [] x.t = "num" -> x.v # "0"
      [] x.t = "text" -> x.v # <<>>
      [] x.t = "str" -> x.v # ""
      [] OTHER -> TRUE

Object2(k1, v1, k2, v2) == JObj(<<[k |-> k1, v |-> v1], [k |-> k2, v |-> v2]>>)

TypeErrorNotString == Err("TypeError", Msg("text.match is not a function"))

(***************************************************************************)
(* Response Normalizer: the three generate functions, given the value     *)
(* that callGeminiAPI returned (data.text).                               *)
(***************************************************************************)
FallbackCard(title, text) ==
    Object2("title", JStr(title), "content", JText(StripFences(text.v)))

\* generateExplanation, lines 56-83.
generateExplanation(topic, text) ==
    IF text.t # "text" THEN Thrown(TypeErrorNotString)
    ELSE LET p == JSONparse(MatchOrText(text.v, "{", "}"))
             data == p.val
             fallback == Object2("cleanTopic", JStr(topic),
                                 "cards", JArr(<<FallbackCard("Explanation", text)>>))
         IN  IF ~p.ok \/ data.t = "null" THEN Returned(fallback)
             ELSE IF Truthy(Get(data, "cleanTopic")) /\ IsArray(Get(data, "cards"))
                  THEN Returned(data)
             ELSE IF IsArray(data)
                  THEN Returned(Object2("cleanTopic", JStr(topic), "cards", data))
             ELSE Returned(fallback)

\* generateClarification, lines 93-105.
generateClarification(topic, text) ==
    IF text.t # "text" THEN Thrown(TypeErrorNotString)
    ELSE LET p == JSONparse(MatchOrText(text.v, "{", "}")) IN
         IF p.ok THEN Returned(p.val)
         ELSE Returned(FallbackCard("Clarification", text))

PlaceholderQuestion(topic) ==
    JObj(<<[k |-> "question", v |-> JText(<<"What is the main concept of ", topic, "?">>)],
           [k |-> "type", v |-> JStr("true_false")],
           [k |-> "options", v |-> JArr(<<JStr("True"), JStr("False")>>)],
           [k |-> "correctAnswer", v |-> JStr("True")],
           [k |-> "explanation", v |-> JStr("This is a basic understanding check.")]>>)

\* generateQuizQuestions, lines 115-135.
generateQuizQuestions(topic, text) ==
    IF text.t # "text" THEN Thrown(TypeErrorNotString)
    ELSE LET p == JSONparse(MatchOrText(text.v, "[", "]")) IN
         IF p.ok /\ IsArray(p.val) /\ Len(p.val.v) > 0 THEN Returned(p.val)
         ELSE Returned(JArr(<<PlaceholderQuestion(topic)>>))

(***************************************************************************)
(* Inputs of the normalizer: texts the model can answer with.             *)
(***************************************************************************)
Topics == {"t1", "t2"}

CardAB == <<"{", "title", ":", "A", ",", "content", ":", "B", "}">>
CardCD == <<"{", "title", ":", "C", ",", "content", ":", "D", "}">>

RECURSIVE JoinComma(_)
JoinComma(items) ==
    IF items = <<>> THEN <<>>
    ELSE IF Len(items) = 1 THEN items[1]
    ELSE items[1] \o <<",">> \o JoinComma(Tail(items))

ArrayOf(items) == <<"[">> \o JoinComma(items) \o <<"]">>

ExplanationObject(clean, cardsToks) ==
    <<"{", "cleanTopic", ":", clean, ",", "cards", ":">> \o cardsToks \o <<"}">>

Question(answer) ==
    <<"{", "question", ":", "q1", ",", "options", ":", "[", "True", ",", "False", "]",
      ",", "correctAnswer", ":", answer, "}">>

\* Well-formed JSON texts.
JsonTexts ==
    {ExplanationObject("Clean", ArrayOf(<<CardAB>>)),
     ExplanationObject("Clean", ArrayOf(<<CardAB, CardCD>>)),
     ExplanationObject("Clean", ArrayOf(<<>>)),
     ArrayOf(<<CardAB>>),
     ArrayOf(<<CardAB, CardCD>>),
     ArrayOf(<<>>),
     ArrayOf(<<<<"A">>, <<"B">>>>),
     CardAB,
     ArrayOf(<<Question("True")>>),
     ArrayOf(<<Question("Maybe")>>)}

\* The ways the model wraps its JSON: bare, fenced, fenced with commentary,
\* and with commentary that holds braces or brackets of its own.
Wrap(w, toks) ==
    CASE w = "bare" -> toks
      [] w = "fenced" -> <<FenceJson>> \o toks \o <<Fence>>
      [] w = "lead" -> <<"Sure!", FenceJson>> \o toks \o <<Fence>>
      [] w = "leadtrail" -> <<"Sure!", FenceJson>> \o toks \o <<Fence, "Done.">>
      [] w = "bracelead" -> <<"{", "Sure!", "}", FenceJson>> \o toks \o <<Fence>>
      [] w = "brackettrail" -> <<FenceJson>> \o toks \o <<Fence, "[", "7", "]">>

Wrappings == {"bare", "fenced", "lead", "leadtrail", "bracelead", "brackettrail"}

\* Texts that hold no JSON of the expected shapes.
OtherTexts == {<<>>, <<"Sure!">>, <<"null">>, <<"7">>, <<"A">>, <<"{", "title">>,
               <<"Sure!", "[", "Done.">>}

RawTexts == {Wrap(w, j) : w \in Wrappings, j \in JsonTexts} \cup OtherTexts

\* What data.text can be: a string, or no string when the body has none.
TextValues == {JText(t) : t \in RawTexts} \cup {Undefined, JNull, JNum("7")}

NormInit ==
    /\ ntopic \in Topics
    /\ ntext \in TextValues
    /\ nfn = "none"
    /\ nresult = NoValue

NormQuiet ==
    /\ ntopic = "t1"
    /\ ntext = Undefined
    /\ nfn = "none"
    /\ nresult = NoValue

GenerateExplanation ==
    /\ nfn = "none"
    /\ nfn' = "generateExplanation"
    /\ nresult' = generateExplanation(ntopic, ntext)
    /\ UNCHANGED <<ntopic, ntext, callVars, sessVars, edgeVars>>

GenerateClarification ==
    /\ nfn = "none"
    /\ nfn' = "generateClarification"
    /\ nresult' = generateClarification(ntopic, ntext)
    /\ UNCHANGED <<ntopic, ntext, callVars, sessVars, edgeVars>>

GenerateQuizQuestions ==
    /\ nfn = "none"
    /\ nfn' = "generateQuizQuestions"
    /\ nresult' = generateQuizQuestions(ntopic, ntext)
    /\ UNCHANGED <<ntopic, ntext, callVars, sessVars, edgeVars>>

NormNext ==
    \/ GenerateExplanation
    \/ GenerateClarification
    \/ GenerateQuizQuestions

(***************************************************************************)
(* Session Pipeline: the Result page (src/src/pages/Result.jsx) and the   *)
(* history table it reads and writes.  A row of the table is              *)
(* [id, query, content, user_id, created_at]; the table applies exactly   *)
(* the filters a query names.                                             *)
(***************************************************************************)
HistoryLimit == 10
MaxLoads == 2
MaxClarifications == 1

NoUser == "guest"
Identities == {"u1", "u2"}
NoId == 0
NoRow == [id |-> NoId, query |-> Undefined, content |-> <<>>, user_id |-> NoUser,
          created_at |-> 0]

CardABv == JSONparse(CardAB).val
CardCDv == JSONparse(CardCD).val

Row(id, q, content, uid) ==
    [id |-> id, query |-> JStr(q), content |-> content, user_id |-> uid,
     created_at |-> id]

\* Topics of older sessions.
HTopics == <<"h1", "h2", "h3", "h4", "h5", "h6", "h7", "h8", "h9", "h10">>

\* n rows of identity uid, written at times from + 1 .. from + n.
Filled(uid, from, n) ==
    {Row(from + k, HTopics[k], <<CardCDv>>, uid) : k \in 1..n}

\* Tables the page may find when it mounts.
InitStores ==
    {{},
     {Row(1, "t1", <<CardCDv>>, "u2")},
     {Row(1, "t1", <<CardCDv>>, "u1"), Row(2, "t2", <<CardCDv>>, "u1")},
     {Row(1, "t1", <<>>, "u1")},
     Filled("u1", 0, HistoryLimit),
     {Row(1, "t2", <<CardCDv>>, "u1")} \cup Filled("u2", 1, HistoryLimit - 1)}

MaxTime(rows) ==
    IF rows = {} THEN 0
    ELSE (CHOOSE r \in rows : \A r2 \in rows : r2.created_at <= r.created_at).created_at

\* A fetchExplanation invocation at its first await.  query is the topic it
\* captured, page the mount it belongs to, fresh whether every earlier
\* invocation had ended when it started; cached, title, content, existing and
\* toDelete are its locals; hit, generated, failed and wrote record the
\* branches it took.
LoadRecord(q, pg, fresh) ==
    [query |-> q, page |-> pg, pc |-> "lookup", fresh |-> fresh,
     hit |-> FALSE, generated |-> FALSE, failed |-> FALSE, wrote |-> FALSE,
     cached |-> NoRow, title |-> JStr(q), content |-> <<>>, existing |-> NoId,
     toDelete |-> {}]

NewLoad(q, pg) == LoadRecord(q, pg, \A k \in 1..Len(loads) : loads[k].pc = "done")

FirstLoad(q) == LoadRecord(q, 1, TRUE)

\* The mount the page is on.
CurrentPage == IF loads = <<>> THEN 0 ELSE loads[Len(loads)].page

\* What callGeminiAPI can hand to generateExplanation for topic q.
ExplanationOutcomes(q) ==
    {Returned(JText(ExplanationObject(q, ArrayOf(<<CardAB>>)))),
     Returned(JText(ExplanationObject("Clean", ArrayOf(<<CardAB, CardCD>>)))),
     Returned(JText(ExplanationObject(q, ArrayOf(<<>>)))),
     Returned(JText(<<"Sure!">>)),
     Returned(Undefined),
     Thrown(Err("Error", TimeoutMessage)),
     Thrown(Err("Error", NetworkMessage)),
     Thrown(Err("Error", Msg("API Error: ") \o Msg("Internal Server Error")))}

ClarificationOutcomes ==
    {Returned(JText(CardCD)),
     Returned(JText(<<"Sure!">>)),
     Thrown(Err("Error", TimeoutMessage))}

QuizOutcomes ==
    {Returned(JText(ArrayOf(<<Question("True")>>))),
     Returned(JText(ArrayOf(<<Question("True"), Question("Maybe")>>))),
     Thrown(Err("Error", NetworkMessage))}

\* The outcomes of a store operation: its data, or an error result.
StoreOutcomes == IF storeBudget > 0 THEN {"data", "error"} ELSE {"data"}

CountFailure(outcome) ==
    storeBudget' = IF outcome = "error" THEN storeBudget - 1 ELSE storeBudget

\* The state setters take effect only while the page is mounted.
Render(c, ci, l, g, sf, e, qq, sq, cqi, dt) ==
    IF mounted
    THEN /\ cards' = c
         /\ currentIndex' = ci
         /\ loading' = l
         /\ generating' = g
         /\ showFeedback' = sf
         /\ error' = e
         /\ quizQuestions' = qq
         /\ showQuiz' = sq
         /\ currentQuizIndex' = cqi
         /\ displayTitle' = dt
    ELSE UNCHANGED pageVars

SetCardsTitleLoading(c, dt, l) ==
    Render(c, currentIndex, l, generating, showFeedback, error, quizQuestions,
           showQuiz, currentQuizIndex, dt)

SetLoading(l) == SetCardsTitleLoading(cards, displayTitle, l)

\* The fetchQuiz effect, lines 137-150, run after a render that changed one
\* of its dependencies; q, qm, c, qq are the values of that render.
FetchQuizGuard(qm, c, qq) == qm /\ Len(c) > 0 /\ Len(qq) = 0

FetchQuiz(q, qm, c, qq) ==
    quizzes' = IF mounted /\ FetchQuizGuard(qm, c, qq)
               THEN Append(quizzes, [query |-> q, pc |-> "inflight"])
               ELSE quizzes

\* Lines 108-117: the cards and the title taken from the result.
ExplanationCards(result) ==
    IF IsArray(result) THEN result.v
    ELSE IF Truthy(result) /\ Truthy(Get(result, "cards")) THEN Get(result, "cards").v
    ELSE <<>>

CleanTitle(result, q) ==
    IF ~IsArray(result) /\ Truthy(result) /\ Truthy(Get(result, "cards"))
       /\ Truthy(Get(result, "cleanTopic"))
    THEN Get(result, "cleanTopic")
    ELSE JStr(q)

\* Line 127: the message shown for a failed load.
ErrorText(err) ==
    <<"Error: ">> \o (IF err.message # <<>> THEN err.message ELSE <<"Unknown error">>)
        \o <<". Check console for details.">>

\* Lines 61-66: the rows the cache lookup can return.
LookupRows(q) == {r \in store : r.query = JStr(q)}

\* Lines 185-191: the rows the existence check of saveToHistory can return.
ExistingRows(title) == {r \in store : r.query = title /\ r.user_id = user}

\* Lines 155-162: the rows beyond the 10 newest of the rows selected.
RowsToDelete ==
    {r.id : r \in {x \in store :
        Cardinality({y \in store : y.created_at > x.created_at}) >= HistoryLimit}}

\* Lines 60-106: the cache lookup of load i returns.
LookupReturns(i) ==
    /\ loads[i].pc = "lookup"
    /\ \E outcome \in StoreOutcomes :
        LET rows == IF outcome = "data" THEN LookupRows(loads[i].query) ELSE {} IN
        /\ CountFailure(outcome)
        /\ \E cachedData \in (IF rows = {} THEN {NoRow} ELSE rows) :
            IF cachedData # NoRow
            THEN /\ loads' = [loads EXCEPT ![i].pc = "done", ![i].hit = TRUE,
                                           ![i].cached = cachedData,
                                           ![i].title = cachedData.query,
                                           ![i].content = cachedData.content]
                 /\ SetCardsTitleLoading(cachedData.content, cachedData.query, FALSE)
                 /\ FetchQuiz(query, quizMode, cachedData.content, quizQuestions)
            ELSE /\ loads' = [loads EXCEPT ![i].pc = "generate", ![i].generated = TRUE]
                 /\ UNCHANGED <<pageVars, quizzes>>
    /\ UNCHANGED <<callVars, normVars, edgeVars, user, query, quizMode, mounted, store, clock, clar>>

\* The catch and finally blocks of fetchExplanation, lines 125-130; the
\* variant that only logs leaves error null, as the other catch blocks do.
LoadFailed_LogOnly(i, err) ==
    /\ loads' = [loads EXCEPT ![i].pc = "done", ![i].failed = TRUE]
    /\ SetLoading(FALSE)

LoadFailed(i, err) ==
    /\ loads' = [loads EXCEPT ![i].pc = "done", ![i].failed = TRUE]
    /\ Render(cards, currentIndex, FALSE, generating, showFeedback, ErrorText(err),
              quizQuestions, showQuiz, currentQuizIndex, displayTitle)

\* Lines 106-130: generateExplanation settles for load i.
GenerationReturns(i) ==
    /\ loads[i].pc = "generate"
    /\ \E out \in ExplanationOutcomes(loads[i].query) :
        LET r == IF out.kind = "error" THEN out
                 ELSE generateExplanation(loads[i].query, out.val)
            explanationCards == ExplanationCards(r.val)
            cleanTitle == CleanTitle(r.val, loads[i].query)
        IN  IF r.kind = "error"
            THEN /\ LoadFailed(i, r.err)
                 /\ UNCHANGED quizzes
            ELSE /\ loads' = [loads EXCEPT
                                ![i].pc = IF user = NoUser THEN "done" ELSE "saveSelect",
                                ![i].title = cleanTitle,
                                ![i].content = explanationCards]
                 /\ SetCardsTitleLoading(explanationCards, cleanTitle,
                                         IF user = NoUser THEN FALSE ELSE loading)
                 /\ FetchQuiz(query, quizMode, explanationCards, quizQuestions)
    /\ UNCHANGED <<callVars, normVars, edgeVars, user, query, quizMode, mounted, store, clock, clar, storeBudget>>

\* The end of fetchExplanation: the finally block, line 129; the variant
\* has no finally block.
Finish_NoFinally(i) ==
    /\ loads' = [loads EXCEPT ![i].pc = "done"]
    /\ UNCHANGED pageVars

Finish(i) ==
    /\ loads' = [loads EXCEPT ![i].pc = "done"]
    /\ SetLoading(FALSE)

\* Lines 185-193: the existence check of saveToHistory returns.
SaveSelectReturns(i) ==
    /\ loads[i].pc = "saveSelect"
    /\ \E outcome \in StoreOutcomes :
        LET rows == IF outcome = "data" THEN ExistingRows(loads[i].title) ELSE {} IN
        /\ CountFailure(outcome)
        /\ \E existing \in (IF rows = {} THEN {NoRow} ELSE rows) :
            loads' = [loads EXCEPT ![i].pc = "saveWrite", ![i].existing = existing.id]
    /\ UNCHANGED <<callVars, normVars, edgeVars, user, query, quizMode, mounted, pageVars, store, clock, quizzes, clar>>

\* Lines 193-211: the update or the insert of saveToHistory returns.
SaveWriteReturns(i) ==
    /\ loads[i].pc = "saveWrite"
    /\ \E outcome \in StoreOutcomes :
        /\ CountFailure(outcome)
        /\ IF outcome = "error"
           THEN /\ UNCHANGED <<store, clock>>
                /\ IF loads[i].existing # NoId
                   THEN /\ loads' = [loads EXCEPT ![i].pc = "limitSelect"]
                        /\ UNCHANGED pageVars
                   ELSE Finish(i)
           ELSE /\ clock' = clock + 1
                /\ store' =
                     IF loads[i].existing # NoId
                     THEN {IF r.id = loads[i].existing
                           THEN [r EXCEPT !.created_at = clock + 1,
                                          !.content = loads[i].content]
                           ELSE r : r \in store}
                     ELSE store \cup {[id |-> clock + 1, query |-> loads[i].title,
                                       content |-> loads[i].content, user_id |-> user,
                                       created_at |-> clock + 1]}
                /\ loads' = [loads EXCEPT ![i].pc = "limitSelect", ![i].wrote = TRUE]
                /\ UNCHANGED pageVars
    /\ UNCHANGED <<callVars, normVars, edgeVars, user, query, quizMode, mounted, quizzes, clar>>

\* Lines 155-170: the select of maintainHistoryLimit returns.
LimitSelectReturns(i) ==
    /\ loads[i].pc = "limitSelect"
    /\ \E outcome \in StoreOutcomes :
        /\ CountFailure(outcome)
        /\ IF outcome = "data" /\ Cardinality(store) > HistoryLimit
           THEN /\ loads' = [loads EXCEPT ![i].pc = "limitDelete",
                                          ![i].toDelete = RowsToDelete]
                /\ UNCHANGED pageVars
           ELSE Finish(i)
    /\ UNCHANGED <<callVars, normVars, edgeVars, user, query, quizMode, mounted, store, clock, quizzes, clar>>

\* Lines 165-168: the delete of maintainHistoryLimit returns.
LimitDeleteReturns(i) ==
    /\ loads[i].pc = "limitDelete"
    /\ \E outcome \in StoreOutcomes :
        /\ CountFailure(outcome)
        /\ store' = IF outcome = "data"
                    THEN {r \in store : r.id \notin loads[i].toDelete}
                    ELSE store
    /\ Finish(i)
    /\ UNCHANGED <<callVars, normVars, edgeVars, user, query, quizMode, mounted, clock, quizzes, clar>>

\* The catch block of fetchQuiz, lines 144-146, which only logs; the variant
\* reports the failure as fetchExplanation does.
QuizFailed_SetsError(err) ==
    Render(cards, currentIndex, loading, generating, showFeedback, ErrorText(err),
           quizQuestions, showQuiz, currentQuizIndex, displayTitle)

QuizFailed(err) == UNCHANGED pageVars

\* Lines 142-146: the quiz request of fetchQuiz invocation k settles.
QuizReturns(k) ==
    /\ quizzes[k].pc = "inflight"
    /\ \E out \in QuizOutcomes :
        LET r == IF out.kind = "error" THEN out
                 ELSE generateQuizQuestions(quizzes[k].query, out.val)
        IN  IF r.kind = "error"
            THEN /\ QuizFailed(r.err)
                 /\ quizzes' = [quizzes EXCEPT ![k].pc = "failed"]
            ELSE /\ Render(cards, currentIndex, loading, generating, showFeedback,
                           error, r.val.v, showQuiz, currentQuizIndex, displayTitle)
                 /\ quizzes' = [quizzes EXCEPT ![k].pc = "done"]
    /\ UNCHANGED <<callVars, normVars, edgeVars, user, query, quizMode, mounted, store, clock, loads, clar,
                   storeBudget>>

\* The page that is rendered: lines 290-312.
MainView == mounted /\ ~loading /\ error = <<>>

\* The state of an unmounted page is discarded, and the answers to its quiz
\* and clarification requests with it.
Unmount ==
    /\ mounted' = FALSE
    /\ cards' = <<>>
    /\ currentIndex' = 0
    /\ loading' = FALSE
    /\ generating' = FALSE
    /\ showFeedback' = FALSE
    /\ error' = <<>>
    /\ quizQuestions' = <<>>
    /\ showQuiz' = FALSE
    /\ currentQuizIndex' = 0
    /\ displayTitle' = JStr(query)
    /\ quizzes' = <<>>
    /\ clar' = <<>>

\* navigate('/'): the page unmounts; its loads go on.
Navigate ==
    /\ Unmount
    /\ UNCHANGED <<callVars, normVars, edgeVars, user, query, quizMode, store, clock, loads,
                   storeBudget>>

\* handleHome, and the Go Home button of the error view.
HandleHome ==
    /\ mounted
    /\ Navigate

\* handleNext, lines 223-239.
HandleNext ==
    /\ MainView /\ ~generating /\ ~showFeedback
    /\ IF showQuiz /\ currentQuizIndex < Len(quizQuestions) - 1
       THEN /\ currentQuizIndex' = currentQuizIndex + 1
            /\ UNCHANGED <<currentIndex, showQuiz, showFeedback, mounted>>
       ELSE IF showQuiz
       THEN Unmount
       ELSE IF currentIndex < Len(cards) - 1
       THEN /\ currentIndex' = currentIndex + 1
            /\ UNCHANGED <<showQuiz, showFeedback, currentQuizIndex, mounted>>
       ELSE IF quizMode /\ Len(quizQuestions) > 0 /\ ~showQuiz
       THEN /\ showQuiz' = TRUE
            /\ currentQuizIndex' = 0
            /\ UNCHANGED <<currentIndex, showFeedback, mounted>>
       ELSE /\ showFeedback' = TRUE
            /\ UNCHANGED <<currentIndex, showQuiz, currentQuizIndex, mounted>>
    /\ mounted' => UNCHANGED <<cards, loading, generating, error, quizQuestions,
                               displayTitle, quizzes, clar>>
    /\ UNCHANGED <<callVars, normVars, edgeVars, user, query, quizMode, store, clock, loads,
                   storeBudget>>

\* handleBack, lines 241-255.
HandleBack ==
    /\ MainView /\ ~generating
    /\ IF showQuiz /\ currentQuizIndex > 0
       THEN /\ currentQuizIndex' = currentQuizIndex - 1
            /\ UNCHANGED <<currentIndex, showQuiz, showFeedback, mounted>>
       ELSE IF showQuiz
       THEN /\ showQuiz' = FALSE
            /\ currentIndex' = Len(cards) - 1
            /\ UNCHANGED <<showFeedback, currentQuizIndex, mounted>>
       ELSE IF showFeedback
       THEN /\ showFeedback' = FALSE
            /\ UNCHANGED <<currentIndex, showQuiz, currentQuizIndex, mounted>>
       ELSE IF currentIndex > 0
       THEN /\ currentIndex' = currentIndex - 1
            /\ UNCHANGED <<showQuiz, showFeedback, currentQuizIndex, mounted>>
       ELSE Unmount
    /\ mounted' => UNCHANGED <<cards, loading, generating, error, quizQuestions,
                               displayTitle, quizzes, clar>>
    /\ UNCHANGED <<callVars, normVars, edgeVars, user, query, quizMode, store, clock, loads,
                   storeBudget>>

\* The feedback card is the one shown: lines 325-350.
FeedbackView == MainView /\ ~generating /\ ~showQuiz /\ showFeedback

\* handleFeedbackSubmit('understood'), lines 267-268.
FeedbackUnderstood ==
    /\ FeedbackView
    /\ Navigate

\* handleFeedbackSubmit('confused', text), lines 269-273: the request is issued.
FeedbackConfused ==
    /\ FeedbackView
    /\ Len(clar) < MaxClarifications
    /\ generating' = TRUE
    /\ clar' = Append(clar, [query |-> query, pc |-> "inflight"])
    /\ UNCHANGED <<callVars, normVars, edgeVars, user, query, quizMode, mounted, cards, currentIndex, loading,
                   showFeedback, error, quizQuestions, showQuiz, currentQuizIndex,
                   displayTitle, store, clock, loads, quizzes, storeBudget>>

\* Lines 273-286: the clarification request k settles.
ClarificationReturns(k) ==
    /\ clar[k].pc = "inflight"
    /\ \E out \in ClarificationOutcomes :
        LET r == IF out.kind = "error" THEN out
                 ELSE generateClarification(clar[k].query, out.val)
        IN  IF r.kind = "error"
            THEN /\ Render(cards, currentIndex, loading, FALSE, showFeedback, error,
                           quizQuestions, showQuiz, currentQuizIndex, displayTitle)
                 /\ UNCHANGED quizzes
            ELSE /\ Render(Append(cards, r.val), currentIndex + 1, loading, FALSE,
                           FALSE, error, quizQuestions, showQuiz, currentQuizIndex,
                           displayTitle)
                 /\ FetchQuiz(query, quizMode, Append(cards, r.val), quizQuestions)
    /\ clar' = [clar EXCEPT ![k].pc = "done"]
    /\ UNCHANGED <<callVars, normVars, edgeVars, user, query, quizMode, mounted, store, clock, loads, storeBudget>>

\* The 10 newest rows of the identity, as the sidebar lists them.
SidebarRows ==
    {r \in store : /\ r.user_id = user
                   /\ Cardinality({y \in store : y.user_id = user
                                      /\ y.created_at > r.created_at}) < HistoryLimit}

\* A click on a history item of the sidebar navigates to /result with
\* state {query}: the page stays mounted, query changes, quizMode is unset,
\* and both effects run again (lines 53-57, 134, 150).
ChangeTopic(q) ==
    /\ mounted
    /\ user # NoUser
    /\ Len(loads) < MaxLoads
    /\ q # query
    /\ \E r \in SidebarRows : r.query = JStr(q)
    /\ query' = q
    /\ quizMode' = FALSE
    /\ loading' = TRUE
    /\ error' = <<>>
    /\ loads' = Append(loads, NewLoad(q, CurrentPage))
    /\ FetchQuiz(q, FALSE, cards, quizQuestions)
    /\ UNCHANGED <<callVars, normVars, edgeVars, user, mounted, cards, currentIndex, generating, showFeedback,
                   quizQuestions, showQuiz, currentQuizIndex, displayTitle, store,
                   clock, clar, storeBudget>>

\* The Result page mounts again for topic q: the user went home and asked
\* for a topic once the requests of the page before have settled.  The state
\* is that of lines 20-31, the fetchExplanation effect runs up to its first
\* await, and the fetchQuiz effect returns at its guard.
Mount(q, qm) ==
    /\ ~mounted
    /\ Len(loads) < MaxLoads
    /\ \A k \in 1..Len(loads) : loads[k].pc = "done"
    /\ mounted' = TRUE
    /\ query' = q
    /\ quizMode' = qm
    /\ displayTitle' = JStr(q)
    /\ loading' = TRUE
    /\ loads' = Append(loads, NewLoad(q, CurrentPage + 1))
    /\ UNCHANGED <<callVars, normVars, edgeVars, user, cards, currentIndex, generating,
                   showFeedback, error, quizQuestions, showQuiz, currentQuizIndex,
                   store, clock, quizzes, clar, storeBudget>>

PageInit ==
    /\ mounted = TRUE
    /\ cards = <<>>
    /\ currentIndex = 0
    /\ loading = TRUE
    /\ generating = FALSE
    /\ showFeedback = FALSE
    /\ error = <<>>
    /\ quizQuestions = <<>>
    /\ showQuiz = FALSE
    /\ currentQuizIndex = 0
    /\ displayTitle = JStr(query)
    /\ clock = MaxTime(store)
    /\ loads = <<FirstLoad(query)>>
    /\ quizzes = <<>>
    /\ clar = <<>>

\* The first mount of a session without quiz, over a store that answers
\* every operation.
SessInit ==
    /\ user \in {NoUser, "u1"}
    /\ query \in Topics
    /\ quizMode = FALSE
    /\ store \in InitStores
    /\ storeBudget = 0
    /\ PageInit

\* The mount of a page with or without quiz.
QuizPageInit ==
    /\ user \in {NoUser, "u1"}
    /\ query = "t1"
    /\ quizMode \in BOOLEAN
    /\ store \in InitStores
    /\ storeBudget = 0
    /\ PageInit

\* No page: the state of the session variables under the other specifications.
SessQuiet ==
    /\ user = NoUser
    /\ query = "t1"
    /\ quizMode = FALSE
    /\ mounted = FALSE
    /\ cards = <<>>
    /\ currentIndex = 0
    /\ loading = FALSE
    /\ generating = FALSE
    /\ showFeedback = FALSE
    /\ error = <<>>
    /\ quizQuestions = <<>>
    /\ showQuiz = FALSE
    /\ currentQuizIndex = 0
    /\ displayTitle = JStr("t1")
    /\ store = {}
    /\ clock = 0
    /\ loads = <<>>
    /\ quizzes = <<>>
    /\ clar = <<>>
    /\ storeBudget = 0

\* The loads of a session and its history table: every step of
\* fetchExplanation, the topic change, the unmount and the next mount.
Next ==
    \/ \E i \in 1..Len(loads) : LookupReturns(i)
    \/ \E i \in 1..Len(loads) : GenerationReturns(i)
    \/ \E i \in 1..Len(loads) : SaveSelectReturns(i)
    \/ \E i \in 1..Len(loads) : SaveWriteReturns(i)
    \/ \E i \in 1..Len(loads) : LimitSelectReturns(i)
    \/ \E i \in 1..Len(loads) : LimitDeleteReturns(i)
    \/ HandleHome
    \/ \E q \in Topics : ChangeTopic(q)
    \/ \E q \in Topics : Mount(q, FALSE)

\* One mounted page: every handler and every request of it.
PageNext ==
    \/ \E i \in 1..Len(loads) : LookupReturns(i)
    \/ \E i \in 1..Len(loads) : GenerationReturns(i)
    \/ \E i \in 1..Len(loads) : SaveSelectReturns(i)
    \/ \E i \in 1..Len(loads) : SaveWriteReturns(i)
    \/ \E i \in 1..Len(loads) : LimitSelectReturns(i)
    \/ \E i \in 1..Len(loads) : LimitDeleteReturns(i)
    \/ \E k \in 1..Len(quizzes) : QuizReturns(k)
    \/ \E k \in 1..Len(clar) : ClarificationReturns(k)
    \/ HandleNext
    \/ HandleBack
    \/ HandleHome
    \/ FeedbackUnderstood
    \/ FeedbackConfused
    \/ \E q \in Topics : ChangeTopic(q)

(***************************************************************************)
(* Proxy: the handler behind /api/gemini, as the Vercel function and as   *)
(* the middleware of the development server, and the client's reading of  *)
(* its response (callGeminiAPI, lines 20-27 and 43-49).                   *)
(***************************************************************************)
Servers == {"vercel", "dev"}
Methods == {"POST", "GET"}

\* Messages of errors thrown by model.generateContent.
ModelErrors == {"quota exceeded", "fetch failed"}

\* The reason phrase of a status: HTTP/1.1 sends it, HTTP/2 has none.
ReasonPhrase(status) ==
    CASE status = 200 -> "OK"
      [] status = 405 -> "Method Not Allowed"
      [] status = 500 -> "Internal Server Error"

StatusTexts(status) == {ReasonPhrase(status), ""}

ProxyBody(err, details, text) == [error |-> err, details |-> details, text |-> text]

NoProxyResponse == [status |-> 0, statusText |-> "", body |-> ProxyBody(Undefined, Undefined, Undefined)]

\* res.status(code).json(body).
Send(status, body) ==
    /\ \E stx \in StatusTexts(status) :
          presponse' = [status |-> status, statusText |-> stx, body |-> body]
    /\ ppc' = "sent"

\* The Vercel function up to the call of the model: part_001 lines 3-19.
VercelHandle ==
    /\ pserver = "vercel"
    /\ ppc = "received"
    /\ IF pmethod # "POST"
       THEN /\ Send(405, ProxyBody(JStr("Method not allowed"), Undefined, Undefined))
            /\ UNCHANGED pforwarded
       ELSE IF ~pkey
       THEN /\ Send(500, ProxyBody(JStr("Server configuration error: Missing API Key"),
                                   Undefined, Undefined))
            /\ UNCHANGED pforwarded
       ELSE /\ ppc' = "model"
            /\ pforwarded' = TRUE
            /\ UNCHANGED presponse
    /\ UNCHANGED <<pserver, pkey, pmethod, paction, pclient, callVars, normVars, sessVars, authVars>>

\* The middleware of the development server up to the call of the model:
\* part_000 lines 15-62.  Without the key it throws before res.status and
\* res.json are defined, so its catch block (lines 159-162) throws in turn
\* and no response is sent: the request stays open, or the connection is
\* reset when the unhandled rejection ends the server process.  A request that is not a POST has an empty body,
\* and reading payload.topic throws.
DevHandle ==
    /\ pserver = "dev"
    /\ ppc = "received"
    /\ IF ~pkey
       THEN /\ ppc' \in {"hung", "reset"}
            /\ UNCHANGED <<pforwarded, presponse>>
       ELSE IF pmethod # "POST"
       THEN /\ Send(500, ProxyBody(JStr("Internal Server Error"),
                                   JStr("Cannot read properties of undefined"), Undefined))
            /\ UNCHANGED pforwarded
       ELSE /\ ppc' = "model"
            /\ pforwarded' = TRUE
            /\ UNCHANGED presponse
    /\ UNCHANGED <<pserver, pkey, pmethod, paction, pclient, callVars, normVars, sessVars, authVars>>

\* model.generateContent settles: part_001 lines 114-122, part_000 lines 152-161.
ModelSettles ==
    /\ ppc = "model"
    /\ \/ \E t \in BodyTexts \ {Undefined} : Send(200, ProxyBody(Undefined, Undefined, t))
       \/ \E m \in ModelErrors :
            Send(500, ProxyBody(JStr(IF pserver = "vercel" THEN "Failed to generate content"
                                     ELSE "Internal Server Error"),
                                JStr(m), Undefined))
    /\ UNCHANGED <<pserver, pkey, pmethod, paction, pforwarded, pclient, callVars, normVars, sessVars, authVars>>

\* callGeminiAPI reads the response: lines 20-27, and the catch of lines 43-49.
ClientReads ==
    /\ ppc = "sent"
    /\ ppc' = "done"
    /\ pclient' = IF presponse.status = 200
                  THEN Returned(presponse.body.text)
                  ELSE CatchOther(Err("Error", Msg("API Error: ") \o Msg(presponse.statusText)))
    /\ UNCHANGED <<pserver, pkey, pmethod, paction, pforwarded, presponse, callVars, normVars, sessVars, authVars>>

\* No response comes: both requests of callGeminiAPI are aborted (lines 30-41).
ClientTimesOut ==
    /\ ppc = "hung"
    /\ ppc' = "done"
    /\ pclient' = Thrown(Err("Error", TimeoutMessage))
    /\ UNCHANGED <<pserver, pkey, pmethod, paction, pforwarded, presponse, callVars, normVars, sessVars, authVars>>

\* The connection is lost: fetch rejects (lines 43-49).
ConnectionLost ==
    /\ ppc = "reset"
    /\ ppc' = "done"
    /\ \E e \in FetchErrors : pclient' = CatchOther(e)
    /\ UNCHANGED <<pserver, pkey, pmethod, paction, pforwarded, presponse, callVars, normVars, sessVars, authVars>>

ProxyInit ==
    /\ pserver \in Servers
    /\ pkey \in BOOLEAN
    /\ pmethod \in Methods
    /\ paction \in Actions
    /\ ppc = "received"
    /\ pforwarded = FALSE
    /\ presponse = NoProxyResponse
    /\ pclient = NoValue

\* No request: the state of the proxy variables under the other specifications.
ProxyQuiet ==
    /\ pserver = "vercel"
    /\ pkey = TRUE
    /\ pmethod = "POST"
    /\ paction = "explanation"
    /\ ppc = "done"
    /\ pforwarded = FALSE
    /\ presponse = NoProxyResponse
    /\ pclient = NoValue

ProxyNext ==
    \/ VercelHandle
    \/ DevHandle
    \/ ModelSettles
    \/ ClientReads
    \/ ClientTimesOut
    \/ ConnectionLost

(***************************************************************************)
(* AuthProvider: logout, updateProfile and loadUserProfile.  authService  *)
(* (services/auth) is taken by what its callers read of its results.      *)
(***************************************************************************)
NoProfile == "none"
NoSession == "none"
ProfileNames == {"A", "B"}
LOGOUT_TIMEOUT_MS == 2000

\* loadUserProfile, lines 85-116, once getUserProfile has settled: with a
\* profile, the state and the cache take it; with an error or an exception
\* the state takes the cached profile, if there is one.
LoadUserProfile(outcome) ==
    IF outcome = "profile"
    THEN /\ profile' = serverProfile
         /\ cachedProfile' = serverProfile
    ELSE /\ profile' = IF cachedProfile # NoProfile THEN cachedProfile ELSE profile
         /\ UNCHANGED cachedProfile

ProfileOutcomes == {"profile", "error"}

\* The profile load that loadUser starts without awaiting it (line 71) returns.
InitialProfileReturns ==
    /\ ipc = "inflight"
    /\ ipc' = "done"
    /\ \E outcome \in ProfileOutcomes : LoadUserProfile(outcome)
    /\ UNCHANGED <<authUser, session, serverProfile, lpc, elapsed, upc, uerror, uresult,
                   callVars, normVars, sessVars, proxyVars>>

\* logout up to its await, lines 172-194: the state and the cache are
\* cleared, the timer is armed and signOut is called.
Logout ==
    /\ lpc = "idle"
    /\ authUser' = NoUser
    /\ profile' = NoProfile
    /\ session' = NoSession
    /\ cachedProfile' = NoProfile
    /\ lpc' = "racing"
    /\ elapsed' = 0
    /\ UNCHANGED <<serverProfile, ipc, upc, uerror, uresult,
                   callVars, normVars, sessVars, proxyVars>>

\* Lines 192-202: the end of logout, by the race or by the catch block.
LogoutReturns ==
    /\ lpc' = "done"
    /\ UNCHANGED <<authUser, profile, session, cachedProfile, serverProfile, ipc, elapsed,
                   upc, uerror, uresult, callVars, normVars, sessVars, proxyVars>>

\* authService.signOut() resolves or rejects before the timer fires.
SignOutSettles ==
    /\ lpc = "racing"
    /\ elapsed < LOGOUT_TIMEOUT_MS
    /\ LogoutReturns

\* The timer of lines 186-191 fires.
LogoutTimeout ==
    /\ lpc = "racing"
    /\ elapsed = LOGOUT_TIMEOUT_MS
    /\ LogoutReturns

\* Time passes while logout awaits the race.
Tick ==
    /\ lpc = "racing"
    /\ elapsed < LOGOUT_TIMEOUT_MS
    /\ elapsed' = elapsed + LOGOUT_TIMEOUT_MS \div 2
    /\ UNCHANGED <<authUser, profile, session, cachedProfile, serverProfile, ipc, lpc,
                   upc, uerror, uresult, callVars, normVars, sessVars, proxyVars>>

\* updateProfile up to its first await, lines 205-220.
UpdateProfile(name) ==
    /\ upc = "idle"
    /\ IF authUser = NoUser
       THEN /\ upc' = "done"
            /\ uresult' = "failure"
            /\ UNCHANGED <<profile, cachedProfile>>
       ELSE /\ upc' = "updating"
            /\ profile' = name
            /\ cachedProfile' = name
            /\ UNCHANGED uresult
    /\ UNCHANGED <<authUser, session, serverProfile, ipc, lpc, elapsed, uerror,
                   callVars, normVars, sessVars, proxyVars>>

\* authService.updateUserProfile returns, lines 220-229: the store took the
\* update (the optimistic profile is what it now holds) or rejected it.
UpdateReturns ==
    /\ upc = "updating"
    /\ upc' = "reloading"
    /\ \E rejected \in BOOLEAN :
        /\ uerror' = rejected
        /\ serverProfile' = IF rejected \/ cachedProfile = NoProfile THEN serverProfile
                            ELSE cachedProfile
    /\ UNCHANGED <<authUser, profile, session, cachedProfile, ipc, lpc, elapsed, uresult,
                   callVars, normVars, sessVars, proxyVars>>

\* The loadUserProfile awaited by updateProfile returns, lines 222-233.
ReloadReturns ==
    /\ upc = "reloading"
    /\ upc' = "done"
    /\ uresult' = IF uerror THEN "failure" ELSE "success"
    /\ \E outcome \in ProfileOutcomes : LoadUserProfile(outcome)
    /\ UNCHANGED <<authUser, session, serverProfile, ipc, lpc, elapsed, uerror,
                   callVars, normVars, sessVars, proxyVars>>

\* A signed-in user whose profile load of loadUser is in flight.
AuthInit ==
    /\ authUser = "u1"
    /\ session = "s1"
    /\ serverProfile = "A"
    /\ cachedProfile \in {NoProfile, "A"}
    /\ profile = cachedProfile
    /\ ipc = "inflight"
    /\ lpc = "idle"
    /\ elapsed = 0
    /\ upc = "idle"
    /\ uerror = FALSE
    /\ uresult = "none"

\* No AuthProvider: the auth variables under the other specifications.
AuthQuiet ==
    /\ authUser = NoUser
    /\ session = NoSession
    /\ serverProfile = "A"
    /\ cachedProfile = NoProfile
    /\ profile = NoProfile
    /\ ipc = "done"
    /\ lpc = "done"
    /\ elapsed = 0
    /\ upc = "done"
    /\ uerror = FALSE
    /\ uresult = "none"

AuthNext ==
    \/ InitialProfileReturns
    \/ Logout
    \/ SignOutSettles
    \/ LogoutTimeout
    \/ Tick
    \/ \E name \in ProfileNames : UpdateProfile(name)
    \/ UpdateReturns
    \/ ReloadReturns

(***************************************************************************)
(* Specifications                                                         *)
(***************************************************************************)
Init == CallInit /\ NormQuiet /\ SessInit /\ ProxyQuiet /\ AuthQuiet

Spec == Init /\ [][Next]_vars

InitPage == CallInit /\ NormQuiet /\ QuizPageInit /\ ProxyQuiet /\ AuthQuiet

SpecPage == InitPage /\ [][PageNext]_vars

\* A request of the page that is in flight settles: the store answers, and
\* callGeminiAPI returns or throws after its timeouts at the latest.
LoadSettles(i) ==
    /\ i \in 1..Len(loads)
    /\ \/ LookupReturns(i)
       \/ GenerationReturns(i)
       \/ SaveSelectReturns(i)
       \/ SaveWriteReturns(i)
       \/ LimitSelectReturns(i)
       \/ LimitDeleteReturns(i)

ClarificationSettles(k) == k \in 1..Len(clar) /\ ClarificationReturns(k)

QuizSettles(k) == k \in 1..Len(quizzes) /\ QuizReturns(k)

\* The requests one page can have at a time.
MaxQuizzes == MaxLoads + MaxClarifications

Settling ==
    /\ \A i \in 1..MaxLoads : WF_vars(LoadSettles(i))
    /\ \A k \in 1..MaxClarifications : WF_vars(ClarificationSettles(k))
    /\ \A k \in 1..MaxQuizzes : WF_vars(QuizSettles(k))

\* The mount of a page over a table that holds no rows of other identities.
InitPageLive ==
    /\ CallInit
    /\ NormQuiet
    /\ QuizPageInit
    /\ \A r \in store : r.user_id = "u1"
    /\ ProxyQuiet /\ AuthQuiet

\* One mounted page whose requests all settle; what the user does is free.
SpecPageLive == InitPageLive /\ [][PageNext]_vars /\ Settling

\* The number of store operations of a session that may fail.
MaxStoreFailures == 1

\* The mount of a signed-in page over a store whose operations may fail.
StoreInit ==
    /\ user = "u1"
    /\ query \in Topics
    /\ quizMode = FALSE
    /\ store \in InitStores
    /\ storeBudget = MaxStoreFailures
    /\ PageInit

InitStore == CallInit /\ NormQuiet /\ StoreInit /\ ProxyQuiet /\ AuthQuiet

\* One load of a signed-in page and the user leaving it.
StoreNext ==
    \/ \E i \in 1..Len(loads) : LookupReturns(i)
    \/ \E i \in 1..Len(loads) : GenerationReturns(i)
    \/ \E i \in 1..Len(loads) : SaveSelectReturns(i)
    \/ \E i \in 1..Len(loads) : SaveWriteReturns(i)
    \/ \E i \in 1..Len(loads) : LimitSelectReturns(i)
    \/ \E i \in 1..Len(loads) : LimitDeleteReturns(i)
    \/ HandleHome

\* Every request of the load settles but the update or insert of
\* saveToHistory, which the store may leave unanswered.
AllButWriteSettles(i) ==
    /\ i \in 1..Len(loads)
    /\ \/ LookupReturns(i)
       \/ GenerationReturns(i)
       \/ SaveSelectReturns(i)
       \/ LimitSelectReturns(i)
       \/ LimitDeleteReturns(i)

SpecStore == InitStore /\ [][StoreNext]_vars /\ WF_vars(AllButWriteSettles(1))

\* Two tabs of identity u1 have started the load of the same topic; of each
\* tab only its fetchExplanation invocation is kept, not what it renders.
TabsInit ==
    /\ user = "u1"
    /\ query \in Topics
    /\ quizMode = FALSE
    /\ mounted = FALSE
    /\ cards = <<>>
    /\ currentIndex = 0
    /\ loading = FALSE
    /\ generating = FALSE
    /\ showFeedback = FALSE
    /\ error = <<>>
    /\ quizQuestions = <<>>
    /\ showQuiz = FALSE
    /\ currentQuizIndex = 0
    /\ displayTitle = JStr(query)
    /\ store \in InitStores
    /\ clock = MaxTime(store)
    /\ loads = <<LoadRecord(query, 1, TRUE), LoadRecord(query, 2, TRUE)>>
    /\ quizzes = <<>>
    /\ clar = <<>>
    /\ storeBudget = 0

InitTabs == CallInit /\ NormQuiet /\ TabsInit /\ ProxyQuiet /\ AuthQuiet

\* The requests of the two tabs return in any order.
TabsNext ==
    \/ \E i \in 1..Len(loads) : LookupReturns(i)
    \/ \E i \in 1..Len(loads) : GenerationReturns(i)
    \/ \E i \in 1..Len(loads) : SaveSelectReturns(i)
    \/ \E i \in 1..Len(loads) : SaveWriteReturns(i)
    \/ \E i \in 1..Len(loads) : LimitSelectReturns(i)
    \/ \E i \in 1..Len(loads) : LimitDeleteReturns(i)

SpecTabs == InitTabs /\ [][TabsNext]_vars

InitCall == CallInit /\ NormQuiet /\ SessQuiet /\ ProxyQuiet /\ AuthQuiet

SpecCall == InitCall /\ [][CallNext]_vars

InitProxy == CallInit /\ NormQuiet /\ SessQuiet /\ ProxyInit /\ AuthQuiet

SpecProxy == InitProxy /\ [][ProxyNext]_vars

InitAuth == CallInit /\ NormQuiet /\ SessQuiet /\ ProxyQuiet /\ AuthInit

\* The timer of logout fires when its time has come; signOut and the
\* requests for the profile may stay unanswered.
SpecAuth == InitAuth /\ [][AuthNext]_vars /\ WF_vars(Tick) /\ WF_vars(LogoutTimeout)

InitNorm == CallInit /\ NormInit /\ SessQuiet /\ ProxyQuiet /\ AuthQuiet

SpecNorm == InitNorm /\ [][NormNext]_vars

(***************************************************************************)
(* Claims about the Generation Client                                     *)
(***************************************************************************)
TimedOut(i) ==
    /\ requests[i].outcome = "timeout"
    /\ requests[i].end = requests[i].start + TIMEOUT_MS

\* C1: a request that times out after 30 s is retried exactly once after a
\* 1-second delay: at most two requests are issued per call, the second
\* starts only after the first has timed out and the delay has elapsed, and
\* the caller receives the Timeout error only after the second request has
\* timed out too.
C1_TimeoutRetriedOnce ==
    /\ Len(requests) <= 2
    /\ \A i \in 2..Len(requests) :
          /\ TimedOut(i - 1)
          /\ requests[i].start >= requests[i - 1].end + RETRY_DELAY_MS
    /\ (cpc \in {"returned", "thrown"} /\ TimedOut(1)) => Len(requests) = 2
    /\ (cresult.kind = "error" /\ cresult.err.message = TimeoutMessage) =>
          /\ cpc = "thrown"
          /\ Len(requests) = 2
          /\ TimedOut(2)
          /\ now = 2 * TIMEOUT_MS + RETRY_DELAY_MS

\* Both requests timed out and the caller holds the Timeout error.
C1_Witness ==
    /\ cpc = "thrown"
    /\ cresult.err.message = TimeoutMessage
    /\ Len(requests) = 2
    /\ TimedOut(1) /\ TimedOut(2)

\* C2: the normalizers never fail: whatever value the Generation Client
\* returns as the text of the response (a string of any content, or a missing
\* or non-string text field), generateExplanation, generateClarification and
\* generateQuizQuestions return a structure instead of throwing.
C2_NormalizersNeverThrow ==
    nfn # "none" => nresult.kind = "value"

\* C3: a session load ends either with a non-empty card sequence and no error
\* or in the Failed state with a non-empty error message, never in a success
\* whose card sequence is empty.
C3_NoEmptySuccess ==
    /\ \A i \in 1..Len(loads) :
          (loads[i].pc = "done" /\ ~loads[i].failed) => Len(loads[i].content) > 0
    /\ (MainView /\ \A i \in 1..Len(loads) : loads[i].pc = "done") => Len(cards) > 0
    /\ (mounted /\ Len(loads) > 0 /\ loads[Len(loads)].failed
            /\ loads[Len(loads)].page = CurrentPage) => error # <<>>

\* The rows of identity uid in a table, and the HistoryLimit newest of a set
\* of rows.
OwnRows(table, uid) == {r \in table : r.user_id = uid}

Newest(rows) ==
    {r \in rows : Cardinality({y \in rows : y.created_at > r.created_at}) < HistoryLimit}

\* C4: after every completed cache write (saveToHistory followed by
\* maintainHistoryLimit) by an identity, the store holds at most 10 entries
\* owned by that identity, and the entries kept are exactly the 10 with the
\* newest timestamps among its entries.
C4_BoundedHistory ==
    [][\A i \in 1..Len(loads) :
          (/\ i <= Len(loads')
           /\ loads[i].wrote
           /\ loads[i].pc \in {"limitSelect", "limitDelete"}
           /\ loads'[i].pc = "done")
          => /\ Cardinality(OwnRows(store', user)) <= HistoryLimit
             /\ OwnRows(store', user) = Newest(OwnRows(store, user))]_vars

\* C5: after a session for a topic was generated and written for an identity,
\* the session load for the same topic and identity that follows at once
\* returns the identical card content from the store and issues no generation
\* call.
C5_CacheRoundTrip ==
    \A i \in 1..Len(loads) - 1 :
        (/\ loads[i].wrote
         /\ loads[i].pc = "done"
         /\ loads[i + 1].fresh
         /\ loads[i + 1].query = loads[i].query
         /\ loads[i + 1].pc # "lookup")
        => /\ loads[i + 1].hit
           /\ ~loads[i + 1].generated
           /\ loads[i + 1].content = loads[i].content

\* C6: on a cache hit the session reuses the stored cards, issues no
\* generation call, and refreshes the timestamp of the entry it hit, so that
\* the entry is the most recent one of the identity's history.
C6_HitRefreshesEntry ==
    [][\A i \in 1..Len(loads) :
          (i <= Len(loads') /\ ~loads[i].hit /\ loads'[i].hit)
          => /\ ~loads'[i].generated
             /\ loads'[i].content = loads'[i].cached.content
             /\ loads'[i].cached.user_id = user
                => \E r \in store' :
                      /\ r.id = loads'[i].cached.id
                      /\ \A y \in OwnRows(store', user) :
                            y.created_at <= r.created_at]_vars

\* C7: without an authenticated identity a session load never writes a
\* history entry and its cache lookup always misses, whatever the store
\* contains, so that each guest load issues a generation call.
C7_GuestBypassesCache ==
    user = NoUser =>
        /\ OwnRows(store, NoUser) = {}
        /\ \A i \in 1..Len(loads) :
              /\ ~loads[i].wrote
              /\ ~loads[i].hit
              /\ loads[i].pc # "lookup" => loads[i].generated

\* C8: the cache lookup is scoped to the authenticated identity: a load by an
\* identity hits only an entry that the identity owns and whose topic is the
\* requested topic.
C8_LookupScopedToIdentity ==
    user # NoUser =>
        \A i \in 1..Len(loads) :
            loads[i].hit => /\ loads[i].cached.user_id = user
                            /\ loads[i].cached.query = JStr(loads[i].query)

\* C9: on one mounted Result page no two explanation requests and no two
\* quiz requests for the same topic are in flight at the same time.
C9_NoOverlappingCalls ==
    mounted =>
        /\ \A a, b \in 1..Len(quizzes) :
              (/\ a # b
               /\ quizzes[a].pc = "inflight"
               /\ quizzes[b].pc = "inflight")
              => quizzes[a].query # quizzes[b].query
        /\ \A i, j \in 1..Len(loads) :
              (/\ i # j
               /\ loads[i].page = CurrentPage /\ loads[j].page = CurrentPage
               /\ loads[i].pc = "generate" /\ loads[j].pc = "generate")
              => loads[i].query # loads[j].query

\* C10: a failure of the generation call of a session load puts the session
\* in the Failed state with a non-empty message; no card is synthesized, the
\* card sequence is left as it was, and the load writes nothing to the
\* history store.
C10_FailureSurfaces ==
    [][\A i \in 1..Len(loads) :
          (i <= Len(loads') /\ loads[i].pc = "generate" /\ loads'[i].failed)
          => /\ mounted => /\ error' # <<>>
                           /\ ~loading'
                           /\ cards' = cards
             /\ store' = store
             /\ loads'[i].pc = "done"
             /\ ~loads'[i].wrote
             /\ loads'[i].content = <<>>]_vars

\* The generation call of the load of the mounted page failed: the page shows
\* the error and the store is the one the page found.
C10_Witness ==
    /\ mounted
    /\ Len(loads) = 1
    /\ loads[1].failed
    /\ loads[1].generated
    /\ error = ErrorText(Err("Error", TimeoutMessage))
    /\ ~loading
    /\ store \in InitStores

\* C11: a page that is loading leaves the loading state (to the main view
\* or to the error view) once its requests settle, and a clarification request
\* only toggles the generating flag: neither its start nor its answer,
\* successful or not, changes loading or error, and generating ends.
C11_LoadingEndsAndClarificationIsLocal ==
    /\ (mounted /\ loading) ~> (~mounted \/ ~loading)
    /\ (mounted /\ generating) ~> (~mounted \/ ~generating)
    /\ [][(mounted' /\ clar' # clar)
            => /\ loading' = loading
               /\ error' = error
               /\ generating' = (\E k \in 1..Len(clar') : clar'[k].pc = "inflight")]_vars

\* A clarification was answered on a page that had finished loading.
C11_Witness ==
    /\ mounted
    /\ ~loading
    /\ ~generating
    /\ \A i \in 1..Len(loads) : loads[i].pc = "done"
    /\ Len(clar) > 0
    /\ clar[1].pc = "done"

\* s is an initial part of t.
IsPrefix(s, t) == Len(s) <= Len(t) /\ SubSeq(t, 1, Len(s)) = s

\* The load of the topic the page is on hands over its result: the step that
\* starts the card sequence of a session.
SessionStarts ==
    LET n == Len(loads) IN
    /\ Len(loads') = n
    /\ loads[n].pc \in {"lookup", "generate"}
    /\ loads'[n].pc # loads[n].pc

\* C12: the card sequence of a session is append-only: apart from the step
\* that delivers the cards of the topic the page is on, no step removes,
\* replaces or reorders a card; the answer to a clarification request adds
\* exactly one card at the end when it succeeds and leaves the sequence as it
\* was when it fails.
C12_CardsAppendOnly ==
    [][(mounted /\ mounted' /\ ~SessionStarts)
         => /\ IsPrefix(cards, cards')
            /\ (\E k \in 1..Len(clar) : clar[k].pc = "inflight" /\ clar'[k].pc = "done")
                 => Len(cards') \in {Len(cards), Len(cards) + 1}]_vars

\* C13: the explanation request and the quiz request are independent: the
\* answer to a quiz request, failed or not, changes neither the error nor the
\* cards nor the loading flag, a failed one leaves the quiz unavailable as it
\* was, and a failed explanation request sets the error whatever became of
\* the quiz requests.
C13_QuizAndExplanationIndependent ==
    [][/\ \A k \in 1..Len(quizzes) :
            (k <= Len(quizzes') /\ quizzes[k].pc = "inflight"
                /\ quizzes'[k].pc # "inflight")
            => /\ error' = error
               /\ cards' = cards
               /\ loading' = loading
               /\ quizzes'[k].pc = "failed" => quizQuestions' = quizQuestions
       /\ \A i \in 1..Len(loads) :
            (i <= Len(loads') /\ mounted /\ ~loads[i].failed /\ loads'[i].failed)
            => error' # <<>>]_vars

\* The quiz request failed on a page that shows its cards without an error.
C13_Witness ==
    /\ MainView
    /\ Len(cards) > 0
    /\ quizQuestions = <<>>
    /\ \E k \in 1..Len(quizzes) : quizzes[k].pc = "failed"

(***************************************************************************)
(* Claims about the Response Normalizer                                   *)
(***************************************************************************)
\* Non-empty arrays of cards, as the explanation prompt asks for them.
CardArrays == {<<CardAB>>, <<CardAB, CardCD>>}

\* C14: explanation normalization of a text that holds a bare JSON array of
\* cards, bare or in a code fence with leading commentary, yields exactly
\* those cards with the original topic as cleanTopic.
C14_BareArrayYieldsItsCards ==
    \A cs \in CardArrays, w \in {"bare", "fenced", "lead"} :
        (nfn = "generateExplanation" /\ ntext = JText(Wrap(w, ArrayOf(cs))))
        => nresult = Returned(Object2("cleanTopic", JStr(ntopic),
                                      "cards", JSONparse(ArrayOf(cs)).val))

\* Canonical JSON texts of the shape each normalizer expects.
ExpectedExplanations == {ExplanationObject("Clean", ArrayOf(cs)) : cs \in CardArrays}

ExpectedClarifications == {CardAB}

ExpectedQuizzes == {ArrayOf(<<Question("True")>>)}

\* C15: fence-insensitivity: normalizing a canonical JSON text of the expected
\* shape gives the same structure as normalizing that text wrapped in a code
\* fence with leading and trailing commentary, commentary that holds brace or
\* bracket characters included.
C15_FenceInsensitive ==
    \A w \in Wrappings :
        /\ \A j \in ExpectedExplanations :
              (nfn = "generateExplanation" /\ ntext = JText(Wrap(w, j)))
              => nresult = generateExplanation(ntopic, JText(j))
        /\ \A j \in ExpectedClarifications :
              (nfn = "generateClarification" /\ ntext = JText(Wrap(w, j)))
              => nresult = generateClarification(ntopic, JText(j))
        /\ \A j \in ExpectedQuizzes :
              (nfn = "generateQuizQuestions" /\ ntext = JText(Wrap(w, j)))
              => nresult = generateQuizQuestions(ntopic, JText(j))

\* The value JSON.parse gives for the substring generateExplanation extracts
\* is an array, or an object with a cleanTopic and an array of cards.
Shaped(p) ==
    /\ p.ok
    /\ \/ p.val.t = "arr"
       \/ /\ p.val.t = "obj"
          /\ Truthy(Get(p.val, "cleanTopic"))
          /\ Get(p.val, "cards").t = "arr"

\* A text without its code-fence markers.
WithoutFences(toks) == SelectSeq(toks, LAMBDA tk : tk \notin {FenceJson, Fence})

\* C16: when the substring extracted from an explanation response fails to
\* parse, or parses to a value that is neither an object with cleanTopic and
\* a cards array nor an array, generateExplanation returns the original topic
\* as cleanTopic and exactly one card whose content is the whole raw text
\* without its code-fence markers.
C16_FallbackIsStrippedText ==
    (/\ nfn = "generateExplanation"
     /\ ntext.t = "text"
     /\ ~Shaped(JSONparse(MatchOrText(ntext.v, "{", "}"))))
    => /\ nresult.kind = "value"
       /\ Get(nresult.val, "cleanTopic") = JStr(ntopic)
       /\ Get(nresult.val, "cards").t = "arr"
       /\ Len(Get(nresult.val, "cards").v) = 1
       /\ Get(Get(nresult.val, "cards").v[1], "content") = JText(WithoutFences(ntext.v))

\* A fenced answer with commentary fell back to one card, fences removed.
C16_Witness ==
    /\ nfn = "generateExplanation"
    /\ ntext = JText(Wrap("leadtrail", ArrayOf(<<CardAB, CardCD>>)))
    /\ Get(Get(nresult.val, "cards").v[1], "content")
         = JText(<<"Sure!">> \o ArrayOf(<<CardAB, CardCD>>) \o <<"Done.">>)

\* JSON texts that are a non-empty array.
NonEmptyArrays ==
    {ArrayOf(<<CardAB>>), ArrayOf(<<CardAB, CardCD>>), ArrayOf(<<<<"A">>, <<"B">>>>),
     ArrayOf(<<Question("True")>>), ArrayOf(<<Question("Maybe")>>)}

\* The elements of a sequence.
Range(seq) == {seq[i] : i \in 1..Len(seq)}

\* C17: quiz normalization of a response text always returns a non-empty
\* sequence of questions: the parsed array when the text contains a non-empty
\* JSON array, and otherwise exactly one true/false placeholder question with
\* the options True and False and the correct answer True.
C17_QuizArrayOrPlaceholder ==
    (nfn = "generateQuizQuestions" /\ ntext.t = "text")
    => /\ nresult.kind = "value"
       /\ nresult.val.t = "arr"
       /\ Len(nresult.val.v) > 0
       /\ \A w \in Wrappings, j \in NonEmptyArrays :
             ntext.v = Wrap(w, j) => nresult.val = JSONparse(j).val
       /\ ("[" \notin Range(ntext.v) \/ \E w \in Wrappings : ntext.v = Wrap(w, ArrayOf(<<>>)))
             => /\ Len(nresult.val.v) = 1
                /\ Get(nresult.val.v[1], "type") = JStr("true_false")
                /\ Get(nresult.val.v[1], "options") = JArr(<<JStr("True"), JStr("False")>>)
                /\ Get(nresult.val.v[1], "correctAnswer") = JStr("True")

\* C18: for every question with a list of options that generateQuizQuestions
\* returns, whatever array the model returned, correctAnswer is one of the
\* question's options.
C18_CorrectAnswerAmongOptions ==
    (nfn = "generateQuizQuestions" /\ nresult.kind = "value")
    => \A q \in Range(nresult.val.v) :
          Get(q, "options").t = "arr"
          => Get(q, "correctAnswer") \in Range(Get(q, "options").v)

(***************************************************************************)
(* Further claims about the Generation Client                             *)
(***************************************************************************)
\* Request i is the last request of the call, and the only one unless the
\* requests before it timed out.
NotRetried(i) ==
    /\ i = Len(requests)
    /\ \A k \in 1..(i - 1) : TimedOut(k)
    /\ i = 1 => Len(requests) = 1

\* C19: a network failure of the request that is not the timeout fails the
\* call with the Network error and is not retried: no request follows it.
C19_NetworkFailureNotRetried ==
    \A i \in 1..Len(requests) :
        requests[i].outcome = "rejected"
        => /\ NotRetried(i)
           /\ cpc = "thrown"
           /\ cresult = Thrown(Err("Error", NetworkMessage))

C21_DetailsSurfacedVerbatim ==
    ( /\ ppc = "done"
      /\ pmethod = "POST"
      /\ presponse.status # 0
      /\ presponse.body.error # Undefined
      /\ presponse.body.details # Undefined )
    => /\ pclient.kind = "error"
       /\ pclient.err.message = Msg(presponse.body.details.v)

\* C25: without the credential every generation request (a POST) is answered
\* with status 500 and the error field "Missing Gemini API Key", and the
\* request is never forwarded to the model.
C25_MissingKeyRejected ==
    (~pkey /\ pmethod = "POST")
    => /\ ~pforwarded
       /\ ppc \notin {"hung", "reset"}
       /\ presponse.status # 0
          => /\ presponse.status = 500
             /\ presponse.body.error = JStr("Missing Gemini API Key")


(***************************************************************************)
(* Store failures                                                          *)
(***************************************************************************)
SaveSteps == {"saveSelect", "saveWrite", "limitSelect", "limitDelete"}

\* C22: a store failure never blocks or fails what the user sees: a store
\* operation that fails leaves error and the failed flag of every load as
\* they were, a failed cache read is a miss (generation follows), and a page
\* whose cards have been generated leaves the loading state even when the
\* write to the store fails or never completes.
C22_StoreFailureNeverBlocks ==
    /\ [][storeBudget' < storeBudget
            => /\ error' = error
               /\ \A i \in 1..Len(loads) :
                    /\ loads'[i].failed = loads[i].failed
                    /\ loads[i].pc = "lookup" => loads'[i].pc \in {"lookup", "generate"}]_vars
    /\ (mounted /\ loading /\ loads[1].pc \in SaveSteps) ~> (~mounted \/ ~loading)


Ids(table) == {r.id : r \in table}

\* C23: eviction is scoped to the owner: every entry that a step removes from
\* the table is owned by the identity that wrote, and is beyond the 10 newest
\* entries of that identity.
C23_EvictionScopedToOwner ==
    [][\A r \in store :
          r.id \notin Ids(store')
          => /\ r.user_id = user
             /\ r \notin Newest(OwnRows(store, user))]_vars


\* C24: concurrent writers of the same topic and identity leave one entry
\* with the content of the last write: after every update or insert of
\* saveToHistory the table holds exactly one entry for the topic and the
\* identity written, and that entry holds the content just written.
C24_LastWriteWins ==
    [][\A i \in 1..Len(loads) :
          (loads[i].pc = "saveWrite" /\ loads'[i].wrote)
          => LET rows == {r \in store' : r.query = loads[i].title /\ r.user_id = user}
             IN  /\ Cardinality(rows) = 1
                 /\ \A r \in rows : r.content = loads[i].content]_vars


(***************************************************************************)
(* The views of the Result page                                           *)
(***************************************************************************)
\* C26: whenever the page is not loading and has cards, currentIndex is the
\* index of one of them.
C26_CurrentIndexInRange ==
    (mounted /\ ~loading /\ Len(cards) > 0)
    => currentIndex \in 0..(Len(cards) - 1)

\* C27: the quiz view and the feedback view are never both on, and the quiz
\* view is on only over an existing question.
C27_QuizAndFeedbackExclusive ==
    /\ ~(showQuiz /\ showFeedback)
    /\ showQuiz => currentQuizIndex \in 0..(Len(quizQuestions) - 1)


\* C28: when the topic changed while an earlier load of the page was in
\* flight, then once every load has completed (the latest without failure, no
\* clarification asked) the cards and the title of the page are those the
\* load of the latest topic delivered.
C28_LatestTopicWins ==
    LET n == Len(loads) IN
    ( /\ mounted
      /\ n >= 2
      /\ ~loads[n].fresh
      /\ \A i \in 1..n : loads[i].pc = "done"
      /\ ~loads[n].failed
      /\ clar = <<>> )
    => /\ cards = loads[n].content
       /\ displayTitle = loads[n].title


(***************************************************************************)
(* AuthProvider                                                            *)
(***************************************************************************)
LoggedOut ==
    /\ authUser = NoUser
    /\ profile = NoProfile
    /\ session = NoSession
    /\ cachedProfile = NoProfile

\* C29: logout completes and leaves the client logged out: when it contacts
\* the provider, user, profile and session are null and the cached profile is
\* removed; it returns at the latest 2 seconds later, whether or not signOut
\* settles; and when it has returned the client is logged out.
C29_LogoutCompletesLoggedOut ==
    /\ [][(lpc = "idle" /\ lpc' = "racing") => LoggedOut']_vars
    /\ [](lpc = "racing" => elapsed <= LOGOUT_TIMEOUT_MS)
    /\ (lpc = "racing") ~> (lpc = "done")
    /\ [](lpc = "done" => LoggedOut)

\* C30: when the store rejected the update, then once updateProfile has
\* returned its failure to a user still signed in, the profile in memory and
\* the cached profile are again the profile stored on the server.
C30_OptimisticUpdateReverted ==
    (upc = "done" /\ uerror /\ uresult = "failure" /\ authUser # NoUser)
    => /\ profile = serverProfile
       /\ cachedProfile = serverProfile

====
